---- MODULE Spec2Model ----
(***************************************************************************)
(* Catalog service of streaming_backend: MovieService and GenreService of  *)
(* app/services/movie_service.py over a relational store with the tables   *)
(* movies, genres and movie_genres.                                        *)
(*                                                                         *)
(* The committed database is the triple (movies, genres, movieGenres).     *)
(* A request is received, its handler runs as one step in a session of its *)
(* own (it works on a transaction copy of the committed tables and either  *)
(* commits the copy or rolls it back), and the response is sent back.      *)
(* The two view-count sessions of SpecConc run their steps interleaved.    *)
(***************************************************************************)
EXTENDS Integers, Sequences, FiniteSets, Bags, TLC

\* ------------------------------------------------------------------ bounds
MaxMovies == 2      \* movie rows ever inserted (autoincrement ids 1..MaxMovies)
MaxGenres == 2      \* genre rows ever inserted (autoincrement ids 1..MaxGenres)
MaxIds == 2         \* longest genre_ids list of a request
MaxViews == 2       \* cap of a movie's view counter
MaxSkip == 3        \* largest skip of a list request
MaxLimit == 2       \* largest limit of a paginated list request
MaxSearchLen == 2   \* longest search string

VARIABLES
    movies,         \* table movies: a set of rows
    genres,         \* table genres: a set of rows
    movieGenres,    \* table movie_genres: a bag of <<movie_id, genre_id>> rows
    nextMovieId,    \* autoincrement of movies.id
    nextGenreId,    \* autoincrement of genres.id
    request,        \* the request being served
    response,       \* its response, once the handler has run
    sess,           \* the sessions of the interleaved view-count requests
    completed       \* per movie id, the increment_view_count calls that returned

vars == <<movies, genres, movieGenres, nextMovieId, nextGenreId,
          request, response, sess, completed>>

\* HTTP status codes of the responses: 200 when the handler returns, the
\* status_code of the HTTPException when it raises
HTTP_200_OK == 200
HTTP_400_BAD_REQUEST == 400
HTTP_404_NOT_FOUND == 404

\* get_movies' default page size
DefaultLimit == 20

\* ------------------------------------------------------------- the store
\* Session.query(Genre).filter(Genre.id == genre_id).first()
GenreRow(gs, genre_id) ==
    IF \E g \in gs : g.id = genre_id
    THEN {CHOOSE g \in gs : g.id = genre_id}
    ELSE {}

\* Session.query(Movie).filter(Movie.id == movie_id).first()
MovieRow(ms, movie_id) ==
    IF \E m \in ms : m.id = movie_id
    THEN {CHOOSE m \in ms : m.id = movie_id}
    ELSE {}

\* table movie_genres takes a row whether or not the pair is already there
InsertRow(mg, row) == mg (+) SetToBag({row})

\* db.add(MovieGenre(movie_id=..., genre_id=...))
AddMovieGenre(mg, movie_id, genre_id) == InsertRow(mg, <<movie_id, genre_id>>)

\* db.query(MovieGenre).filter(MovieGenre.movie_id == movie_id).delete()
DeleteMovieGenresOf(mg, movie_id) ==
    [p \in {q \in DOMAIN mg : q[1] # movie_id} |-> mg[p]]

\* ON DELETE CASCADE of movie_genres.movie_id
CascadeMovie(mg, movie_id) ==
    [p \in {q \in DOMAIN mg : q[1] # movie_id} |-> mg[p]]

\* ON DELETE CASCADE of movie_genres.genre_id
CascadeGenre(mg, genre_id) ==
    [p \in {q \in DOMAIN mg : q[2] # genre_id} |-> mg[p]]

\* the column defaults of table movies; created_at is the insertion time, which
\* grows with every insert
MovieDefaults(id) ==
    [is_featured |-> FALSE, is_trending |-> FALSE, view_count |-> 0, created_at |-> id]

\* ---------------------------------------------------------- MovieService
\* Movie(...) of create_movie as db.flush() inserts it.  duration, rating,
\* language, country and the three urls are copied like title and read by no
\* operation: they are left out.
NewMovie(data, id) ==
    [id |-> id, title |-> data.title, description |-> data.description,
     director |-> data.director, cast |-> data.cast,
     release_year |-> data.release_year, status |-> "pending",
     is_featured |-> MovieDefaults(id).is_featured,
     is_trending |-> MovieDefaults(id).is_trending,
     view_count |-> MovieDefaults(id).view_count,
     created_at |-> MovieDefaults(id).created_at]

\* the loop over genre_ids of create_movie and update_movie, on the
\* transaction's movie_genres: stops at the first id that is no genre
RECURSIVE AddGenres(_, _, _, _)
AddGenres(gs, mg, movie_id, ids) ==
    IF ids = <<>> THEN [ok |-> TRUE, mg |-> mg, missing |-> 0]
    ELSE IF GenreRow(gs, Head(ids)) = {}
         THEN [ok |-> FALSE, mg |-> mg, missing |-> Head(ids)]
         ELSE AddGenres(gs, AddMovieGenre(mg, movie_id, Head(ids)), movie_id, Tail(ids))

\* create_movie with the flushed rows committed before the genres are verified
CreateMovieCommitFirst(data) ==
    LET id == nextMovieId
        r == IF data.genre_ids # <<>>
             THEN AddGenres(genres, movieGenres, id, data.genre_ids)
             ELSE [ok |-> TRUE, mg |-> movieGenres, missing |-> 0]
    IN  [movies |-> movies \cup {NewMovie(data, id)}, movieGenres |-> r.mg,
         nextMovieId |-> id + 1,
         status |-> IF r.ok THEN HTTP_200_OK ELSE HTTP_400_BAD_REQUEST,
         detail |-> IF r.ok THEN id ELSE r.missing]

\* create_movie: the committed tables and the response it ends with
CreateMovieOutcome(data) ==
    LET id == nextMovieId
        txMovies == movies \cup {NewMovie(data, id)}
        r == IF data.genre_ids # <<>>
             THEN AddGenres(genres, movieGenres, id, data.genre_ids)
             ELSE [ok |-> TRUE, mg |-> movieGenres, missing |-> 0]
    IN  IF r.ok
        THEN [movies |-> txMovies, movieGenres |-> r.mg, nextMovieId |-> id + 1,
              status |-> HTTP_200_OK, detail |-> id]
        ELSE [movies |-> movies, movieGenres |-> movieGenres, nextMovieId |-> id,
              status |-> HTTP_400_BAD_REQUEST, detail |-> r.missing]

create_movie ==
    /\ request.op = "create_movie" /\ response.status = 0
    /\ LET o == CreateMovieOutcome(request.args)
       IN  /\ movies' = o.movies
           /\ movieGenres' = o.movieGenres
           /\ nextMovieId' = o.nextMovieId
           /\ response' = [status |-> o.status, detail |-> o.detail]
    /\ UNCHANGED <<genres, nextGenreId, request, sess, completed>>

\* the setattr loop of update_movie over the scalar fields that were set
ApplyFields(m, u) ==
    [f \in DOMAIN m |-> IF f \in DOMAIN u \ {"genre_ids"} THEN u[f] ELSE m[f]]

\* update_movie that adds the new genres without removing the existing ones
UpdateMovieNoDelete(movie_id, u) ==
    IF MovieRow(movies, movie_id) = {}
    THEN [movies |-> movies, movieGenres |-> movieGenres,
          status |-> HTTP_404_NOT_FOUND, detail |-> movie_id]
    ELSE LET movie == CHOOSE m \in MovieRow(movies, movie_id) : TRUE
             r == IF "genre_ids" \in DOMAIN u
                  THEN AddGenres(genres, movieGenres, movie_id, u["genre_ids"])
                  ELSE [ok |-> TRUE, mg |-> movieGenres, missing |-> 0]
         IN  IF r.ok
             THEN [movies |-> (movies \ {movie}) \cup {ApplyFields(movie, u)},
                   movieGenres |-> r.mg,
                   status |-> HTTP_200_OK, detail |-> movie_id]
             ELSE [movies |-> movies, movieGenres |-> movieGenres,
                   status |-> HTTP_400_BAD_REQUEST, detail |-> r.missing]

\* update_movie that keeps the scalar changes and the removal when a genre is missing
UpdateMovieNoRollback(movie_id, u) ==
    IF MovieRow(movies, movie_id) = {}
    THEN [movies |-> movies, movieGenres |-> movieGenres,
          status |-> HTTP_404_NOT_FOUND, detail |-> movie_id]
    ELSE LET movie == CHOOSE m \in MovieRow(movies, movie_id) : TRUE
             r == IF "genre_ids" \in DOMAIN u
                  THEN AddGenres(genres, DeleteMovieGenresOf(movieGenres, movie_id),
                                 movie_id, u["genre_ids"])
                  ELSE [ok |-> TRUE, mg |-> movieGenres, missing |-> 0]
         IN  [movies |-> (movies \ {movie}) \cup {ApplyFields(movie, u)},
              movieGenres |-> r.mg,
              status |-> IF r.ok THEN HTTP_200_OK ELSE HTTP_400_BAD_REQUEST,
              detail |-> IF r.ok THEN movie_id ELSE r.missing]

\* update_movie that writes every column of the payload schema, unset ones as defaults
UpdateMovieAllFields(movie_id, u) ==
    IF MovieRow(movies, movie_id) = {}
    THEN [movies |-> movies, movieGenres |-> movieGenres,
          status |-> HTTP_404_NOT_FOUND, detail |-> movie_id]
    ELSE LET movie == CHOOSE m \in MovieRow(movies, movie_id) : TRUE
             full == [f \in {"title", "is_featured"} |->
                        IF f \in DOMAIN u THEN u[f]
                        ELSE IF f = "title" THEN <<"a">> ELSE FALSE]
             r == IF "genre_ids" \in DOMAIN u
                  THEN AddGenres(genres, DeleteMovieGenresOf(movieGenres, movie_id),
                                 movie_id, u["genre_ids"])
                  ELSE [ok |-> TRUE, mg |-> movieGenres, missing |-> 0]
         IN  IF r.ok
             THEN [movies |-> (movies \ {movie}) \cup {ApplyFields(movie, full)},
                   movieGenres |-> r.mg,
                   status |-> HTTP_200_OK, detail |-> movie_id]
             ELSE [movies |-> movies, movieGenres |-> movieGenres,
                   status |-> HTTP_400_BAD_REQUEST, detail |-> r.missing]

\* update_movie: the committed tables and the response it ends with
UpdateMovieOutcome(movie_id, u) ==
    IF MovieRow(movies, movie_id) = {}
    THEN [movies |-> movies, movieGenres |-> movieGenres,
          status |-> HTTP_404_NOT_FOUND, detail |-> movie_id]
    ELSE LET movie == CHOOSE m \in MovieRow(movies, movie_id) : TRUE
             txMovies == (movies \ {movie}) \cup {ApplyFields(movie, u)}
             r == IF "genre_ids" \in DOMAIN u
                  THEN AddGenres(genres, DeleteMovieGenresOf(movieGenres, movie_id),
                                 movie_id, u["genre_ids"])
                  ELSE [ok |-> TRUE, mg |-> movieGenres, missing |-> 0]
         IN  IF r.ok
             THEN [movies |-> txMovies, movieGenres |-> r.mg,
                   status |-> HTTP_200_OK, detail |-> movie_id]
             ELSE [movies |-> movies, movieGenres |-> movieGenres,
                   status |-> HTTP_400_BAD_REQUEST, detail |-> r.missing]

update_movie ==
    /\ request.op = "update_movie" /\ response.status = 0
    /\ LET o == UpdateMovieOutcome(request.args.movie_id, request.args.update)
       IN  /\ movies' = o.movies
           /\ movieGenres' = o.movieGenres
           /\ response' = [status |-> o.status, detail |-> o.detail]
    /\ UNCHANGED <<genres, nextMovieId, nextGenreId, request, sess, completed>>

\* delete_movie: the row, and by referential cascade its movie_genres rows
delete_movie ==
    /\ request.op = "delete_movie" /\ response.status = 0
    /\ IF MovieRow(movies, request.args) = {}
       THEN /\ UNCHANGED <<movies, movieGenres>>
            /\ response' = [status |-> HTTP_404_NOT_FOUND, detail |-> request.args]
       ELSE /\ movies' = movies \ MovieRow(movies, request.args)
            /\ movieGenres' = CascadeMovie(movieGenres, request.args)
            /\ response' = [status |-> HTTP_200_OK, detail |-> request.args]
    /\ UNCHANGED <<genres, nextMovieId, nextGenreId, request, sess, completed>>

\* the row as the UPDATE of the session's flush leaves it
WithViewCount(m, n) == [m EXCEPT !.view_count = n]

\* increment_view_count that writes the counter back unchanged
IncrementNoop(movie_id) ==
    IF MovieRow(movies, movie_id) = {}
    THEN [movies |-> movies, status |-> HTTP_404_NOT_FOUND]
    ELSE [movies |-> movies, status |-> HTTP_200_OK]

\* increment_view_count run alone: load, add one, commit
IncrementOutcome(movie_id) ==
    IF MovieRow(movies, movie_id) = {}
    THEN [movies |-> movies, status |-> HTTP_404_NOT_FOUND]
    ELSE LET movie == CHOOSE m \in MovieRow(movies, movie_id) : TRUE
         IN  [movies |-> (movies \ {movie})
                            \cup {WithViewCount(movie, movie.view_count + 1)},
              status |-> HTTP_200_OK]

increment_view_count ==
    /\ request.op = "increment_view_count" /\ response.status = 0
    /\ LET o == IncrementOutcome(request.args)
       IN  /\ movies' = o.movies
           /\ response' = [status |-> o.status, detail |-> request.args]
           /\ completed' = IF o.status = HTTP_200_OK
                           THEN [completed EXCEPT ![request.args] = @ + 1]
                           ELSE completed
    /\ UNCHANGED <<genres, movieGenres, nextMovieId, nextGenreId, request, sess>>

\* ---------------------------------------------------------- GenreService
\* create_genre's query for an existing genre, filtering on the name alone
ExistingGenreByName(name, slug) == {g \in genres : g.name = name}

\* create_genre's query for an existing genre
ExistingGenre(name, slug) == {g \in genres : g.name = name \/ g.slug = slug}

create_genre ==
    /\ request.op = "create_genre" /\ response.status = 0
    /\ IF ExistingGenre(request.args.name, request.args.slug) # {}
       THEN /\ UNCHANGED <<genres, nextGenreId>>
            /\ response' = [status |-> HTTP_400_BAD_REQUEST, detail |-> 0]
       ELSE /\ genres' = genres \cup {[id |-> nextGenreId, name |-> request.args.name,
                                       slug |-> request.args.slug]}
            /\ nextGenreId' = nextGenreId + 1
            /\ response' = [status |-> HTTP_200_OK, detail |-> nextGenreId]
    /\ UNCHANGED <<movies, movieGenres, nextMovieId, request, sess, completed>>

\* get_genre_by_id: the response
get_genre_by_id(genre_id) ==
    IF \E g \in genres : g.id = genre_id
    THEN [status |-> HTTP_200_OK, genre |-> CHOOSE g \in genres : g.id = genre_id]
    ELSE [status |-> HTTP_404_NOT_FOUND, genre |-> [id |-> 0, name |-> "", slug |-> ""]]

\* get_genre_by_slug: the response
get_genre_by_slug(slug) ==
    IF \E g \in genres : g.slug = slug
    THEN [status |-> HTTP_200_OK, genre |-> CHOOSE g \in genres : g.slug = slug]
    ELSE [status |-> HTTP_404_NOT_FOUND, genre |-> [id |-> 0, name |-> "", slug |-> ""]]

\* delete_genre: the row, and by referential cascade its movie_genres rows
delete_genre ==
    /\ request.op = "delete_genre" /\ response.status = 0
    /\ IF GenreRow(genres, request.args) = {}
       THEN /\ UNCHANGED <<genres, movieGenres>>
            /\ response' = [status |-> HTTP_404_NOT_FOUND, detail |-> request.args]
       ELSE /\ genres' = genres \ GenreRow(genres, request.args)
            /\ movieGenres' = CascadeGenre(movieGenres, request.args)
            /\ response' = [status |-> HTTP_200_OK, detail |-> request.args]
    /\ UNCHANGED <<movies, nextMovieId, nextGenreId, request, sess, completed>>

\* ------------------------------------------------------------ get_movies
\* str.lower() of one character of the alphabet
LowerChar(c) == IF c = "A" THEN "a" ELSE IF c = "B" THEN "b" ELSE c

LowerText(t) == [i \in DOMAIN t |-> LowerChar(t[i])]

\* SQL LIKE on folded text: % matches any run of characters, _ any one character
RECURSIVE Like(_, _)
Like(t, p) ==
    IF p = <<>> THEN t = <<>>
    ELSE IF Head(p) = "%" THEN Like(t, Tail(p)) \/ (t # <<>> /\ Like(Tail(t), p))
    ELSE IF t = <<>> THEN FALSE
    ELSE IF Head(p) = "_" THEN Like(Tail(t), Tail(p))
    ELSE Head(p) = Head(t) /\ Like(Tail(t), Tail(p))

\* column.ilike(pattern)
ILike(t, p) == Like(LowerText(t), LowerText(p))

\* f"%{search}%"
SearchTerm(search) == <<"%">> \o search \o <<"%">>

\* `if search:` and the or_ of the four ilike clauses
SearchClause(m, f) ==
    IF "search" \in DOMAIN f /\ f["search"] # <<>>
    THEN \/ ILike(m.title, SearchTerm(f["search"]))
         \/ ILike(m.description, SearchTerm(f["search"]))
         \/ ILike(m.director, SearchTerm(f["search"]))
         \/ ILike(m.cast, SearchTerm(f["search"]))
    ELSE TRUE

\* `if genre_id:` query.join(MovieGenre).filter(MovieGenre.genre_id == genre_id):
\* the rows the query holds for movie m
JoinRows(m, f) ==
    IF "genre_id" \in DOMAIN f /\ f["genre_id"] # 0
    THEN CopiesIn(<<m.id, f["genre_id"]>>, movieGenres)
    ELSE 1

\* `if status:`, `if is_featured is not None:`, `if is_trending is not None:`,
\* `if release_year:`
ScalarClauses(m, f) ==
    /\ ("status" \in DOMAIN f /\ f["status"] # "") => m.status = f["status"]
    /\ "is_featured" \in DOMAIN f => m.is_featured = f["is_featured"]
    /\ "is_trending" \in DOMAIN f => m.is_trending = f["is_trending"]
    /\ ("release_year" \in DOMAIN f /\ f["release_year"] # 0)
          => m.release_year = f["release_year"]

\* the filtered query: for each movie that has rows, their number
QueryRows(f) ==
    LET hit == {m \in movies : SearchClause(m, f) /\ ScalarClauses(m, f)
                                  /\ JoinRows(m, f) > 0}
    IN  [m \in hit |-> JoinRows(m, f)]

\* query.count()
QueryCount(f) == BagCardinality(QueryRows(f))

Repeat(x, n) == [i \in 1..n |-> x]

\* order_by(Movie.created_at.desc()) of the query's rows
RECURSIVE OrderByCreatedAtDesc(_)
OrderByCreatedAtDesc(rows) ==
    IF DOMAIN rows = {} THEN <<>>
    ELSE LET m == CHOOSE x \in DOMAIN rows :
                      \A y \in DOMAIN rows : y.created_at <= x.created_at
         IN  Repeat(m, rows[m])
                \o OrderByCreatedAtDesc([x \in DOMAIN rows \ {m} |-> rows[x]])

\* offset(skip).limit(limit)
OffsetLimit(s, skip, limit) ==
    SubSeq(s, skip + 1, IF skip + limit < Len(s) THEN skip + limit ELSE Len(s))

\* Query.all() returns each entity of the fetched rows once
RECURSIVE Unique(_)
Unique(s) ==
    IF s = <<>> THEN <<>>
    ELSE LET r == Unique(SubSeq(s, 1, Len(s) - 1))
         IN  IF \E i \in DOMAIN r : r[i] = s[Len(s)] THEN r ELSE Append(r, s[Len(s)])

\* get_movies: (movies, total)
GetMoviesResult(f, skip, limit) ==
    [movies |-> Unique(OffsetLimit(OrderByCreatedAtDesc(QueryRows(f)), skip, limit)),
     total |-> QueryCount(f)]

get_movies ==
    /\ request.op = "get_movies" /\ response.status = 0
    /\ LET r == GetMoviesResult(request.args.filters, request.args.skip,
                                request.args.limit)
       IN  response' = [status |-> HTTP_200_OK, detail |-> r.total, movies |-> r.movies]
    /\ UNCHANGED <<movies, genres, movieGenres, nextMovieId, nextGenreId,
                   request, sess, completed>>

\* ------------------------------------------- interleaved view-count sessions
Sessions == {1, 2}

IdleSession == [pc |-> "idle", movie_id |-> 0, view_count |-> 0]

\* the sessions that hold movie_id loaded and have not committed yet
InFlight(movie_id) ==
    Cardinality({t \in Sessions : sess[t].pc = "loaded" /\ sess[t].movie_id = movie_id})

\* get_movie_by_id in session s: the row is loaded into the session, or 404
LoadMovie(s, movie_id) ==
    /\ sess[s].pc = "idle"
    /\ completed[movie_id] + InFlight(movie_id) < MaxViews
    /\ IF MovieRow(movies, movie_id) = {}
       THEN sess' = [sess EXCEPT ![s] = [pc |-> "not_found", movie_id |-> movie_id,
                                         view_count |-> 0]]
       ELSE LET movie == CHOOSE m \in MovieRow(movies, movie_id) : TRUE
            IN  sess' = [sess EXCEPT ![s] = [pc |-> "loaded", movie_id |-> movie_id,
                                             view_count |-> movie.view_count]]
    /\ UNCHANGED <<movies, genres, movieGenres, nextMovieId, nextGenreId,
                   request, response, completed>>

\* movie.view_count += 1 on the loaded object, and db.commit(): the flush
\* writes the value computed from the loaded one
CommitViewCount(s) ==
    /\ sess[s].pc = "loaded"
    /\ movies' = {IF m.id = sess[s].movie_id
                  THEN WithViewCount(m, sess[s].view_count + 1) ELSE m : m \in movies}
    /\ completed' = [completed EXCEPT ![sess[s].movie_id] = @ + 1]
    /\ sess' = [sess EXCEPT ![s].pc = "committed"]
    /\ UNCHANGED <<genres, movieGenres, nextMovieId, nextGenreId, request, response>>

\* the request of session s is over: the session is closed
CloseSession(s) ==
    /\ sess[s].pc \in {"committed", "not_found"}
    /\ sess' = [sess EXCEPT ![s] = IdleSession]
    /\ UNCHANGED <<movies, genres, movieGenres, nextMovieId, nextGenreId,
                   request, response, completed>>

\* ------------------------------------------------------ requests in flight
NoRequest == [op |-> "none", args |-> 0]
NoResponse == [status |-> 0, detail |-> 0]

\* a request arrives
Receive(r) ==
    /\ request.op = "none"
    /\ request' = r
    /\ UNCHANGED <<movies, genres, movieGenres, nextMovieId, nextGenreId,
                   response, sess, completed>>

\* the response is sent
Reply ==
    /\ response.status # 0
    /\ request' = NoRequest
    /\ response' = NoResponse
    /\ UNCHANGED <<movies, genres, movieGenres, nextMovieId, nextGenreId,
                   sess, completed>>

Init ==
    /\ movies = {}
    /\ genres = {}
    /\ movieGenres = EmptyBag
    /\ nextMovieId = 1
    /\ nextGenreId = 1
    /\ request = NoRequest
    /\ response = NoResponse
    /\ sess = [s \in Sessions |-> IdleSession]
    /\ completed = [i \in 1..(MaxMovies + 1) |-> 0]

\* ------------------------------------------------------- request payloads
Text == <<"a">>
GenreIdInputs == 1..(MaxGenres + 1)        \* MaxGenres + 1 is never a genre
MovieIdInputs == 1..(MaxMovies + 1)        \* MaxMovies + 1 is never a movie
IdLists == UNION {[1..n -> GenreIdInputs] : n \in 0..MaxIds}

MoviePayload(title, description, director, cast, ids) ==
    [title |-> title, description |-> description, director |-> director,
     cast |-> cast, release_year |-> 2024, genre_ids |-> ids]

CreateMovieRequests(payloads) ==
    IF nextMovieId <= MaxMovies
    THEN {[op |-> "create_movie", args |-> d] : d \in payloads}
    ELSE {}

\* a create_genre is received while the autoincrement is below its cap, or when
\* it inserts nothing
CreateGenreRequests(names, slugs) ==
    {r \in {[op |-> "create_genre", args |-> [name |-> n, slug |-> s]] :
                n \in names, s \in slugs} :
        nextGenreId <= MaxGenres \/ ExistingGenre(r.args.name, r.args.slug) # {}}

UpdateMovieRequests(updates) ==
    {[op |-> "update_movie", args |-> [movie_id |-> id, update |-> u]] :
        id \in MovieIdInputs, u \in updates}

DeleteMovieRequests == {[op |-> "delete_movie", args |-> id] : id \in MovieIdInputs}
DeleteGenreRequests == {[op |-> "delete_genre", args |-> id] : id \in GenreIdInputs}

IncrementRequests ==
    {[op |-> "increment_view_count", args |-> id] :
        id \in {i \in MovieIdInputs : completed[i] < MaxViews}}

\* MovieUpdate payloads after model_dump(exclude_unset=True): a function from
\* the fields that were set to their values
WithGenreIds(u, ids) ==
    [f \in DOMAIN u \cup {"genre_ids"} |-> IF f = "genre_ids" THEN ids ELSE u[f]]

\* ------------------------------------------- Spec: movies and their genres
CatalogScalarUpdates ==
    {<<>>, [f \in {"title"} |-> <<"b">>], [f \in {"is_featured"} |-> TRUE],
     [f \in {"title", "is_featured"} |-> IF f = "title" THEN <<"b">> ELSE TRUE]}

CatalogUpdates ==
    CatalogScalarUpdates
        \cup {WithGenreIds(u, ids) : u \in CatalogScalarUpdates, ids \in IdLists}

CatalogRequests ==
    CreateGenreRequests({"Action"}, {"action"})
        \cup CreateGenreRequests({"Drama"}, {"drama"})
        \cup DeleteGenreRequests
        \cup CreateMovieRequests({MoviePayload(Text, Text, Text, Text, ids) : ids \in IdLists})
        \cup UpdateMovieRequests(CatalogUpdates)
        \cup DeleteMovieRequests

Next ==
    \/ \E r \in CatalogRequests : Receive(r)
    \/ create_genre
    \/ delete_genre
    \/ create_movie
    \/ update_movie
    \/ delete_movie
    \/ Reply

Spec == Init /\ [][Next]_vars

\* --------------------------------------------------- SpecGenre: genres alone
GenreNames == {"Action", "Drama", "Comedy"}
GenreSlugs == {"action", "drama", "comedy"}

GenreRequests == CreateGenreRequests(GenreNames, GenreSlugs) \cup DeleteGenreRequests

NextGenre ==
    \/ \E r \in GenreRequests : Receive(r)
    \/ create_genre
    \/ delete_genre
    \/ Reply

SpecGenre == Init /\ [][NextGenre]_vars

\* ------------------------------------- SpecViews: view counts, one at a time
ViewsRequests ==
    CreateMovieRequests({MoviePayload(Text, Text, Text, Text, <<>>)})
        \cup DeleteMovieRequests
        \cup IncrementRequests

NextViews ==
    \/ \E r \in ViewsRequests : Receive(r)
    \/ create_movie
    \/ delete_movie
    \/ increment_view_count
    \/ Reply

SpecViews == Init /\ [][NextViews]_vars

\* ------------------------------- SpecConc: view counts, sessions interleaved
NextConc ==
    \/ \E r \in CreateMovieRequests({MoviePayload(Text, Text, Text, Text, <<>>)}) : Receive(r)
    \/ create_movie
    \/ Reply
    \/ \E s \in Sessions, id \in MovieIdInputs : LoadMovie(s, id)
    \/ \E s \in Sessions : CommitViewCount(s)
    \/ \E s \in Sessions : CloseSession(s)

SpecConc == Init /\ [][NextConc]_vars

\* ------------------------------------ SpecList: filters and pagination
Merge(f, g) == [k \in DOMAIN f \cup DOMAIN g |-> IF k \in DOMAIN f THEN f[k] ELSE g[k]]

OneFilter ==
    {[k \in {"genre_id"} |-> v] : v \in 0..MaxGenres}
        \cup {[k \in {"status"} |-> v] : v \in {"", "pending", "published"}}
        \cup {[k \in {"is_featured"} |-> v] : v \in BOOLEAN}
        \cup {[k \in {"is_trending"} |-> v] : v \in BOOLEAN}
        \cup {[k \in {"release_year"} |-> v] : v \in {0, 2024}}

\* no filter, one filter, or two filters together
ListFilters == {<<>>} \cup {Merge(f, g) : f \in OneFilter, g \in OneFilter}

GetMoviesRequests(filters, skips, limits) ==
    {[op |-> "get_movies", args |-> [filters |-> f, skip |-> s, limit |-> l]] :
        f \in filters, s \in skips, l \in limits}

ListUpdates == {[f \in {"status"} |-> "published"], [f \in {"is_featured"} |-> TRUE]}

ListRequests ==
    CreateGenreRequests({"Action"}, {"action"})
        \cup CreateGenreRequests({"Drama"}, {"drama"})
        \cup CreateMovieRequests({MoviePayload(Text, Text, Text, Text, ids) : ids \in IdLists})
        \cup UpdateMovieRequests(ListUpdates)
        \cup DeleteMovieRequests
        \cup GetMoviesRequests(ListFilters, {0}, {DefaultLimit})
        \cup GetMoviesRequests({<<>>, [k \in {"genre_id"} |-> 1]}, 0..MaxSkip, 0..MaxLimit)

NextList ==
    \/ \E r \in ListRequests : Receive(r)
    \/ create_genre
    \/ create_movie
    \/ update_movie
    \/ delete_movie
    \/ get_movies
    \/ Reply

SpecList == Init /\ [][NextList]_vars

\* ------------------------------------------------ SpecSearch: free-text search
Alphabet == {"a", "A", "b", "%", "_"}
SearchStrings == UNION {[1..n -> Alphabet] : n \in 0..MaxSearchLen}

SearchPayloads ==
    {MoviePayload(t, d, r, c, <<>>) :
        t \in {<<"A", "b">>, <<"b">>}, d \in {<<>>, <<"a", "_">>},
        r \in {<<"B">>, <<"a">>}, c \in {<<"%">>, <<"b", "a">>}}

SearchRequests ==
    CreateMovieRequests(SearchPayloads)
        \cup DeleteMovieRequests
        \cup GetMoviesRequests({[k \in {"search"} |-> s] : s \in SearchStrings},
                               {0}, {DefaultLimit})

NextSearch ==
    \/ \E r \in SearchRequests : Receive(r)
    \/ create_movie
    \/ delete_movie
    \/ get_movies
    \/ Reply

SpecSearch == Init /\ [][NextSearch]_vars

\* ================================================================ properties
\* the step in which the handler of `op` serves the pending request
Handles(op) == request.op = op /\ response.status = 0 /\ response'.status # 0

\* the request `op` has been served with `status`
Served(op, status) == request.op = op /\ response.status = status

GenreIds == {g.id : g \in genres}
Range(s) == {s[i] : i \in DOMAIN s}

\* the first id of the list that is no genre
FirstMissing(ids) ==
    ids[CHOOSE i \in DOMAIN ids :
            ids[i] \notin GenreIds /\ \A j \in 1..(i - 1) : ids[j] \in GenreIds]

\* the genre ids associated with a movie in a movie_genres table
GenreIdsOf(mg, movie_id) == {p[2] : p \in {q \in DOMAIN mg : q[1] = movie_id}}

\* the rows of a movie_genres table that belong to other movies
OtherRows(mg, movie_id) == [p \in {q \in DOMAIN mg : q[1] # movie_id} |-> mg[p]]

TheMovie(ms, movie_id) == CHOOSE m \in ms : m.id = movie_id

\* C1: a create_movie call whose genre_ids holds an id that is no genre, at any
\* position, is answered 400 naming the first such id, and movies, genres and
\* movie_genres are after the call what they were before it.
CreateWithMissingGenreLeavesStore ==
    [][(Handles("create_movie") /\ Range(request.args.genre_ids) \ GenreIds # {})
          => /\ response'.status = HTTP_400_BAD_REQUEST
             /\ response'.detail = FirstMissing(request.args.genre_ids)
             /\ movies' = movies
             /\ genres' = genres
             /\ movieGenres' = movieGenres]_vars

\* C1 witness: a create_movie whose list holds a genre and then an id that is no
\* genre was answered 400, with movies and associations in the store
CreateWithMissingGenreSeen ==
    /\ Served("create_movie", HTTP_400_BAD_REQUEST)
    /\ Len(request.args.genre_ids) >= 2
    /\ request.args.genre_ids[1] \in GenreIds
    /\ request.args.genre_ids[2] \notin GenreIds
    /\ movies # {}
    /\ movieGenres # EmptyBag

\* C2: an update_movie of an existing movie whose genre id list holds an id that
\* is no genre is answered 400 naming it, and movies, genres and movie_genres are
\* after the call what they were before it: no scalar change, every previous
\* association still there, no new association.
UpdateWithMissingGenreLeavesStore ==
    [][(/\ Handles("update_movie")
        /\ \E m \in movies : m.id = request.args.movie_id
        /\ "genre_ids" \in DOMAIN request.args.update
        /\ Range(request.args.update["genre_ids"]) \ GenreIds # {})
          => /\ response'.status = HTTP_400_BAD_REQUEST
             /\ response'.detail = FirstMissing(request.args.update["genre_ids"])
             /\ movies' = movies
             /\ genres' = genres
             /\ movieGenres' = movieGenres]_vars

\* C2 witness: an update that set a new title and a list with a genre followed by
\* an id that is no genre was answered 400, on a movie that has associations
UpdateWithMissingGenreSeen ==
    /\ Served("update_movie", HTTP_400_BAD_REQUEST)
    /\ "title" \in DOMAIN request.args.update
    /\ \E m \in movies : /\ m.id = request.args.movie_id
                         /\ m.title # request.args.update["title"]
    /\ GenreIdsOf(movieGenres, request.args.movie_id) # {}
    /\ Len(request.args.update["genre_ids"]) >= 2
    /\ request.args.update["genre_ids"][1] \in GenreIds
    /\ request.args.update["genre_ids"][1]
          \notin GenreIdsOf(movieGenres, request.args.movie_id)
    /\ request.args.update["genre_ids"][2] \notin GenreIds

UpdateChangesOnlySuppliedFields ==
    [][(Handles("update_movie") /\ response'.status = HTTP_200_OK)
          => LET id == request.args.movie_id
                 u == request.args.update
                 old == TheMovie(movies, id)
                 new == TheMovie(movies', id)
             IN  /\ \A f \in DOMAIN old :
                       new[f] = IF f \in DOMAIN u THEN u[f] ELSE old[f]
                 /\ movies' \ {new} = movies \ {old}
                 /\ genres' = genres
                 /\ "genre_ids" \notin DOMAIN u => movieGenres' = movieGenres
                 /\ OtherRows(movieGenres', id) = OtherRows(movieGenres, id)]_vars

\* C4 witness: an update that set is_featured alone succeeded on a movie whose
\* title had been changed before and which has associations, with another movie
\* in the store
UpdateChangesOnlySuppliedFieldsSeen ==
    /\ Served("update_movie", HTTP_200_OK)
    /\ DOMAIN request.args.update = {"is_featured"}
    /\ \E m \in movies : /\ m.id = request.args.movie_id
                         /\ m.title = <<"b">>
                         /\ m.is_featured
    /\ GenreIdsOf(movieGenres, request.args.movie_id) # {}
    /\ \E m \in movies : m.id # request.args.movie_id

\* C8: create_genre(name, slug) is answered 400 and leaves the genres as they were
\* when a genre has the same name or the same slug; otherwise it adds the genre,
\* which get_genre_by_id and get_genre_by_slug then return.  After every step no
\* two genres share a name and no two genres share a slug.
GenreNameAndSlugUnique ==
    [][/\ Handles("create_genre") =>
            IF \E g \in genres : g.name = request.args.name \/ g.slug = request.args.slug
            THEN /\ response'.status = HTTP_400_BAD_REQUEST
                 /\ genres' = genres
                 /\ movies' = movies
                 /\ movieGenres' = movieGenres
            ELSE /\ response'.status = HTTP_200_OK
                 /\ \E g \in genres' :
                       /\ genres' = genres \cup {g}
                       /\ g \notin genres
                       /\ g.name = request.args.name
                       /\ g.slug = request.args.slug
                       /\ g.id = response'.detail
                       /\ get_genre_by_id(g.id)' = [status |-> HTTP_200_OK, genre |-> g]
                       /\ get_genre_by_slug(g.slug)' = [status |-> HTTP_200_OK, genre |-> g]
       /\ \A g1, g2 \in genres' :
             g1 # g2 => g1.name # g2.name /\ g1.slug # g2.slug]_vars

\* C8 witness: with two genres stored, a create_genre with an unused name and the
\* slug of a stored genre was answered 400
GenreDuplicateSlugSeen ==
    /\ Served("create_genre", HTTP_400_BAD_REQUEST)
    /\ Cardinality(genres) = 2
    /\ \A g \in genres : g.name # request.args.name
    /\ \E g \in genres : g.slug = request.args.slug

\* C9: run one after another, an increment_view_count on an existing movie is
\* answered 200, raises the movie's view counter by one and changes nothing
\* else, so a movie's counter is the number of calls made on it; on an id that
\* is no movie the call is answered 404 and changes nothing.
IncrementAddsExactlyOne ==
    [][/\ Handles("increment_view_count") =>
            IF \E m \in movies : m.id = request.args
            THEN LET old == TheMovie(movies, request.args)
                 IN  /\ response'.status = HTTP_200_OK
                     /\ movies' = (movies \ {old})
                                     \cup {[old EXCEPT !.view_count = old.view_count + 1]}
                     /\ genres' = genres
                     /\ movieGenres' = movieGenres
            ELSE /\ response'.status = HTTP_404_NOT_FOUND
                 /\ movies' = movies
                 /\ genres' = genres
                 /\ movieGenres' = movieGenres
       /\ \A m \in movies' : m.view_count = completed'[m.id]]_vars

\* C9 witness: the second call on a movie was answered 200 and its counter is 2,
\* with another movie in the store
IncrementTwiceSeen ==
    /\ Served("increment_view_count", HTTP_200_OK)
    /\ \E m \in movies : m.id = request.args /\ m.view_count = 2
    /\ \E m \in movies : m.id # request.args

\* C10: whenever no session holds a movie loaded, each movie's view counter is
\* the number of increment_view_count calls that committed on it: no increment
\* of interleaved sessions is lost.
NoIncrementLost ==
    (\A s \in Sessions : sess[s].pc # "loaded")
        => \A m \in movies : m.view_count = completed[m.id]

\* the movies a list request asks for: every filter that is present holds exactly
Matches(m, f) ==
    /\ "genre_id" \in DOMAIN f => f["genre_id"] \in GenreIdsOf(movieGenres, m.id)
    /\ "status" \in DOMAIN f => m.status = f["status"]
    /\ "is_featured" \in DOMAIN f => m.is_featured = f["is_featured"]
    /\ "is_trending" \in DOMAIN f => m.is_trending = f["is_trending"]
    /\ "release_year" \in DOMAIN f => m.release_year = f["release_year"]

Matching(f) == {m \in movies : Matches(m, f)}

\* p is the page at positions skip .. skip+limit-1 of the movies of S, most
\* recently created first
IsPage(p, S, skip, limit) ==
    /\ Len(p) = IF Cardinality(S) <= skip THEN 0
                ELSE IF Cardinality(S) - skip < limit THEN Cardinality(S) - skip
                ELSE limit
    /\ \A i \in DOMAIN p :
          /\ p[i] \in S
          /\ Cardinality({m \in S : m.created_at > p[i].created_at}) = skip + i - 1

\* the filter values that Python takes as true
AllTruthy(f) ==
    /\ "genre_id" \in DOMAIN f => f["genre_id"] # 0
    /\ "status" \in DOMAIN f => f["status"] # ""
    /\ "release_year" \in DOMAIN f => f["release_year"] # 0

ListFiltersHoldExactly ==
    Served("get_movies", HTTP_200_OK)
        => /\ \A i \in DOMAIN response.movies :
                 Matches(response.movies[i], request.args.filters)
           /\ response.detail = Cardinality(Matching(request.args.filters))

\* s occurs in t as a run of characters, letter case ignored
Contains(t, s) ==
    \E k \in 0..(Len(t) - Len(s)) :
        \A i \in 1..Len(s) : LowerChar(t[k + i]) = LowerChar(s[i])

ContainsInSomeField(m, s) ==
    \/ Contains(m.title, s)
    \/ Contains(m.description, s)
    \/ Contains(m.director, s)
    \/ Contains(m.cast, s)

\* C7: get_movies with search = s returns only movies of which the title, the
\* description, the director or the cast contains s literally, letter case
\* ignored, and total is the number of those movies, for every s, those with the
\* characters % and _ included.
SearchIsLiteralSubstring ==
    (Served("get_movies", HTTP_200_OK) /\ "search" \in DOMAIN request.args.filters)
        => /\ \A i \in DOMAIN response.movies :
                 ContainsInSomeField(response.movies[i], request.args.filters["search"])
           /\ response.detail
                 = Cardinality({m \in movies :
                                   ContainsInSomeField(m, request.args.filters["search"])})
====
